---------------------------- MODULE Spec2Model ----------------------------
(***************************************************************************)
(* A model of rusgit (src/src/main.rs): the repository locator             *)
(* (repo_create, repo_find, repo_dir, repo_file), the object codec         *)
(* (GitObject) and the loose-object store (read_object, write_object),     *)
(* over an explicit model of the filesystem.                               *)
(*                                                                         *)
(* Text.  A Rust string is modelled by what it holds.  Byte strings        *)
(* (type tokens, headers, payloads) are sequences of bytes 0..255.  A      *)
(* path component is a sequence of text tokens, so that format!'s          *)
(* concatenation is \o: "objects" is <<"objects">>, the hex name "62" is   *)
(* <<"6","2">>, and "{0}1" applied to "62" is <<"6","2","1">>.             *)
(*                                                                         *)
(* Paths.  A std::path::Path is [abs, comps]; the filesystem itself is     *)
(* keyed by resolved absolute component sequences.                         *)
(*                                                                         *)
(* SHA-1 cannot be computed here; it is modelled as a collision-free       *)
(* digest (the digest of a buffer is the buffer), which is the property    *)
(* of SHA-1 the store relies on.  hex::encode is modelled as it works.     *)
(* zlib is modelled by the file's format tag: a "zlib" file inflates to    *)
(* its data, an "empty" file is what File::create leaves behind.           *)
(***************************************************************************)
EXTENDS Integers, Sequences, FiniteSets, TLC

VARIABLES
    dirs,    \* the directories of the filesystem: a set of resolved paths
    files,   \* the regular files: a function from resolved path to content
    cwd,     \* the process's working directory (resolved path)
    repos,   \* the GitRepository handles the caller holds
    ret,     \* the last completed call: its name, arguments and result
    nops,    \* number of calls made so far
    procs    \* concurrent processes running read_object / write_object

vars == <<dirs, files, cwd, repos, ret, nops, procs>>

----------------------------------------------------------------------------
(* Bounds of the model *)

\* longest payload drawn for an object
MaxLen == 1
\* calls made in one behaviour of the sequential specifications
MaxOps == 3
\* depth of the directory chain /d/d/... of the locator's filesystem
MaxDepth == 2
\* processes that read and write the store concurrently
NProcs == 3

----------------------------------------------------------------------------
(* Bytes and text *)

\* b' ' and b'\0', the two separators read_object looks for
SP == 32
NUL == 0
\* b'+', which usize::from_str accepts as a sign
PLUS == 43
\* b'0'
ZERO == 48
\* a byte that is never valid UTF-8, and b'x', an ordinary byte
InvalidByte == <<255>>
OrdinaryByte == <<120>>

commit == <<99, 111, 109, 109, 105, 116>>
tree == <<116, 114, 101, 101>>
tag == <<116, 97, 103>>
blob == <<98, 108, 111, 98>>
widget == <<119, 105, 100, 103, 101, 116>>

TypeTokens == {commit, tree, tag, blob}

HexDigits ==
    <<"0", "1", "2", "3", "4", "5", "6", "7", "8", "9", "a", "b", "c", "d", "e", "f">>

RECURSIVE hex_encode(_)
hex_encode(bytes) ==
    IF bytes = <<>> THEN <<>>
    ELSE <<HexDigits[(Head(bytes) \div 16) + 1], HexDigits[(Head(bytes) % 16) + 1]>>
         \o hex_encode(Tail(bytes))

\* Sha1::new().update(b).finalize(): a collision-free digest of the buffer
Sha1(buffer) == buffer

\* format!("{}", n) for a usize
RECURSIVE to_decimal(_)
to_decimal(n) ==
    IF n < 10 THEN <<ZERO + n>>
    ELSE to_decimal(n \div 10) \o <<ZERO + (n % 10)>>

IsDigit(b) == b >= ZERO /\ b <= ZERO + 9

RECURSIVE digits_value(_, _)
digits_value(s, acc) ==
    IF s = <<>> THEN acc
    ELSE digits_value(Tail(s), (acc * 10) + (Head(s) - ZERO))

\* str::parse::<usize>(): an optional '+', then one or more decimal digits;
\* -1 stands for Err(ParseIntError)
parse_usize(s) ==
    LET body == IF s # <<>> /\ Head(s) = PLUS THEN Tail(s) ELSE s
    IN  IF body = <<>> \/ \E i \in 1..Len(body) : ~IsDigit(body[i])
        THEN -1
        ELSE digits_value(body, 0)

\* str::from_utf8 over the bytes of the model: ASCII is valid, 255 is not
is_utf8(s) == \A i \in 1..Len(s) : s[i] < 128

\* Iterator::position: index (0-based) of the first b in s, -1 for None
position(s, b) ==
    IF \E i \in 1..Len(s) : s[i] = b
    THEN (CHOOSE i \in 1..Len(s) : s[i] = b /\ \A j \in 1..(i - 1) : s[j] # b) - 1
    ELSE -1

\* &s[from..] and &s[from..to] with 0-based, end-exclusive indices
slice_from(s, from) == SubSeq(s, from + 1, Len(s))
slice(s, from, to) == SubSeq(s, from + 1, to)

----------------------------------------------------------------------------
(* Results of calls *)

Nil == <<>>
Ok(v) == [kind |-> "ok", val |-> v, err |-> ""]
Err(e) == [kind |-> "err", val |-> Nil, err |-> e]
Panic(e) == [kind |-> "panic", val |-> Nil, err |-> e]

\* the messages of the code's Err values
NotAGitRepository == "Not a git repository"
UnknownType == "Unknown type"
BadLength == "Malformed object: bad length"
NotADirectory == "Not a directory"
NoGitRepository == "No .git repository"
WorktreeNotADirectory == "{worktree:?} is not a directory!"
GitdirNotEmpty == "{gitdir} is not empty!"
Utf8Error == "FromUtf8Error"
ParseIntError == "ParseIntError"
IoError == "io::Error"

----------------------------------------------------------------------------
(* Paths and the filesystem *)

Tok(s) == <<s>>
DotGit == Tok(".git")
Dot == Tok(".")

AbsPath(comps) == [abs |-> TRUE, comps |-> comps]
RelPath(comps) == [abs |-> FALSE, comps |-> comps]

\* Path::join: an absolute argument replaces the receiver
join(p, q) == IF q.abs THEN q ELSE [abs |-> p.abs, comps |-> p.comps \o q.comps]

\* Path::parent of a path with at least one component
parent(p) == [abs |-> p.abs, comps |-> SubSeq(p.comps, 1, Len(p.comps) - 1)]

RECURSIVE drop_dots(_)
drop_dots(comps) ==
    IF comps = <<>> THEN <<>>
    ELSE IF Head(comps) = Dot THEN drop_dots(Tail(comps))
         ELSE <<Head(comps)>> \o drop_dots(Tail(comps))

\* how the operating system resolves a path of a process whose working
\* directory is wd
Resolve(wd, p) == IF p.abs THEN drop_dots(p.comps) ELSE wd \o drop_dots(p.comps)

Prefixes(rp) == {SubSeq(rp, 1, k) : k \in 0..Len(rp)}

is_dir(D, rp) == rp \in D
is_file(F, rp) == rp \in DOMAIN F
exists(D, F, rp) == is_dir(D, rp) \/ is_file(F, rp)

\* fs::create_dir_all succeeds unless a component of the path is a file
can_create_dir_all(F, rp) == \A q \in Prefixes(rp) : q \notin DOMAIN F
create_dir_all(D, rp) == D \cup Prefixes(rp)

\* File::create succeeds when the parent is a directory and the path is not
can_create_file(D, rp) ==
    rp # <<>> /\ SubSeq(rp, 1, Len(rp) - 1) \in D /\ rp \notin D

WithFile(F, rp, content) == [q \in (DOMAIN F) \cup {rp} |-> IF q = rp THEN content ELSE F[q]]

\* contents of files
Zlib(buffer) == [fmt |-> "zlib", data |-> buffer]
EmptyFile == [fmt |-> "empty", data |-> <<>>]
MetaFile == [fmt |-> "meta", data |-> <<>>]

\* ZlibDecoder::read_to_end on a file: the complete stream inflates to its
\* data; bytes that are no zlib stream are an error; of an empty file the
\* decoder either reports an error or yields no bytes
Inflate(content) ==
    CASE content.fmt = "zlib" -> {Ok(content.data)}
      [] content.fmt = "empty" -> {Ok(<<>>), Err(IoError)}
      [] OTHER -> {Err(IoError)}

\* a call's effect on the filesystem together with its result
Out(D, F, r) == [dirs |-> D, files |-> F, res |-> r]


----------------------------------------------------------------------------
(* GitRepository *)

\* GitRepository::new(path, force)
GitRepository_new(D, wd, path, force) ==
    LET worktree == path
        gitdir == [abs |-> path.abs, comps |-> path.comps \o <<DotGit>>]
    IN  IF ~(force \/ is_dir(D, Resolve(wd, gitdir)))
        THEN Err(NotAGitRepository)
        ELSE Ok([worktree |-> worktree, gitdir |-> gitdir])

----------------------------------------------------------------------------
(* The object codec *)

\* impl fmt::Display for GitObject
to_string(obj) ==
    CASE obj.variant = "Commit" -> commit
      [] obj.variant = "Tree" -> tree
      [] obj.variant = "Tag" -> tag
      [] obj.variant = "Blob" -> blob

\* GitObject::new(data, object_type)
GitObject_new(data, object_type) ==
    CASE object_type = commit -> Ok([variant |-> "Commit", data |-> data])
      [] object_type = tree -> Ok([variant |-> "Tree", data |-> data])
      [] object_type = tag -> Ok([variant |-> "Tag", data |-> data])
      [] object_type = blob -> Ok([variant |-> "Blob", data |-> data])
      [] OTHER -> Err(UnknownType)

\* GitObjectBehavior::serialize of the four variants: GitCommit and GitTag
\* are todo!()
GitObjectBehavior_serialize(variant, data) ==
    CASE variant = "Commit" -> Panic("todo!")
      [] variant = "Tree" -> Ok(data)
      [] variant = "Tag" -> Panic("todo!")
      [] variant = "Blob" -> Ok(data)

\* GitObject::serialize
serialize(obj) == GitObjectBehavior_serialize(obj.variant, obj.data)

----------------------------------------------------------------------------
(* Path resolution inside the metadata directory *)

\* repo_path(repo, path)
repo_path(repo, path) == join(repo.gitdir, path)

\* repo_dir(repo, path)
repo_dir(D, F, wd, repo, path) ==
    LET p == repo_path(repo, path)
        rp == Resolve(wd, p)
    IN  IF exists(D, F, rp)
        THEN IF is_dir(D, rp)
             THEN Out(D, F, Ok(p))
             ELSE Out(D, F, Err(NotADirectory))
        ELSE IF can_create_dir_all(F, rp)
             THEN Out(create_dir_all(D, rp), F, Ok(p))
             ELSE Out(D, F, Panic("Couldn't create directories {path:?}"))

\* repo_file(repo, path): the result of repo_dir is discarded
repo_file(D, F, wd, repo, path) ==
    LET p == repo_path(repo, path)
        ds == parent(p)
        made == repo_dir(D, F, wd, repo, ds)
    IN  IF made.res.kind = "panic"
        THEN made
        ELSE Out(made.dirs, made.files, Ok(p))

----------------------------------------------------------------------------
(* The object store *)

Objects == Tok("objects")

\* "objects/<a>/<b>" as a relative path; an empty last part leaves no component
ObjectsPath(a, b) ==
    RelPath(<<Objects, a>> \o (IF b = <<>> THEN <<>> ELSE <<b>>))

\* format!("objects/{0}/{1}", &sha[0..=1], &sha[2..]) of read_object
read_object_path(sha) == ObjectsPath(slice(sha, 0, 2), slice_from(sha, 2))

\* format!("objects/{0}1/{1}", &sha1_hex[0..=1], &sha1_hex[2..]) of write_object
write_object_path(sha1_hex) ==
    ObjectsPath(slice(sha1_hex, 0, 2) \o <<"1">>, slice_from(sha1_hex, 2))

\* the header and the buffer write_object builds
header_of(type_token, data) == type_token \o <<SP>> \o to_decimal(Len(data)) \o <<NUL>>
file_content_of(type_token, data) == header_of(type_token, data) \o data

\* read_object from the decompressed buffer on: the header's parse, the
\* length check and the dispatch
parse_object(decompressed_data) ==
    LET file_length == Len(decompressed_data)
        ascii_space == position(decompressed_data, SP)
        null_byte == position(decompressed_data, NUL)
    IN  IF ascii_space = -1 THEN Panic("unwrap: no space")
        ELSE IF ~is_utf8(slice(decompressed_data, 0, ascii_space)) THEN Err(Utf8Error)
        ELSE IF null_byte = -1 THEN Panic("unwrap: no null")
        ELSE IF null_byte < ascii_space + 1 THEN Panic("slice index order")
        ELSE LET size_str == slice(decompressed_data, ascii_space + 1, null_byte)
                 size == parse_usize(size_str)
             IN  IF ~is_utf8(size_str) THEN Panic("unwrap: Utf8Error")
                 ELSE IF size = -1 THEN Err(ParseIntError)
                 ELSE IF size # file_length - null_byte - 1 THEN Err(BadLength)
                 ELSE GitObject_new(slice_from(decompressed_data, null_byte + 1),
                                    slice(decompressed_data, 0, ascii_space))

\* read_object(repo, sha): the set of its possible outcomes (the decoder's
\* answer on an empty file is not determined)
read_object(D, F, wd, repo, sha) ==
    IF Len(sha) < 2
    THEN {Out(D, F, Panic("str slice out of range"))}
    ELSE LET located == repo_file(D, F, wd, repo, read_object_path(sha))
         IN  IF located.res.kind = "panic"
             THEN {located}
             ELSE LET rp == Resolve(wd, located.res.val)
                  IN  IF ~is_file(F, rp)
                      THEN {Out(located.dirs, F, Panic("assert!(path.is_file())"))}
                      ELSE {Out(located.dirs, F,
                                IF inflated.kind = "ok"
                                THEN parse_object(inflated.val)
                                ELSE inflated) : inflated \in Inflate(F[rp])}

\* write_object(repo, obj)
write_object(D, F, wd, repo, obj) ==
    LET ser == serialize(obj)
    IN  IF ser.kind # "ok"
        THEN Out(D, F, Panic(ser.err))
        ELSE LET data == ser.val
                 file_content == file_content_of(to_string(obj), data)
                 sha1_hex == hex_encode(Sha1(file_content))
                 located == repo_file(D, F, wd, repo, write_object_path(sha1_hex))
             IN  IF located.res.kind = "panic"
                 THEN located
                 ELSE LET rp == Resolve(wd, located.res.val)
                      IN  IF exists(located.dirs, F, rp)
                          THEN Out(located.dirs, F, Ok(sha1_hex))
                          ELSE IF can_create_file(located.dirs, rp)
                               THEN Out(located.dirs,
                                        WithFile(F, rp, Zlib(file_content)),
                                        Ok(sha1_hex))
                               ELSE Out(located.dirs, F, Panic("unwrap: File::create"))

----------------------------------------------------------------------------
(* The repository locator *)

\* the loop of repo_find: while let Some(parent) = current_dir.parent()
RECURSIVE repo_find_loop(_, _, _)
repo_find_loop(D, wd, current_dir) ==
    IF current_dir = <<>>
    THEN Err(NoGitRepository)
    ELSE LET up == SubSeq(current_dir, 1, Len(current_dir) - 1)
         IN  IF is_dir(D, up \o <<DotGit>>)
             THEN GitRepository_new(D, wd, AbsPath(up), FALSE)
             ELSE repo_find_loop(D, wd, up)

\* repo_find without its first check: the search starts at the parent
repo_find_from_parent(D, F, wd, path) ==
    LET current_path == Resolve(wd, path)
    IN  IF ~exists(D, F, current_path)
        THEN Panic("unwrap: canonicalize")
        ELSE repo_find_loop(D, wd, current_path)

\* repo_find(path); fs::canonicalize fails on a path that does not exist
repo_find(D, F, wd, path) ==
    LET current_path == Resolve(wd, path)
    IN  IF ~exists(D, F, current_path)
        THEN Panic("unwrap: canonicalize")
        ELSE IF is_dir(D, current_path \o <<DotGit>>)
             THEN GitRepository_new(D, wd, AbsPath(current_path), FALSE)
             ELSE repo_find_loop(D, wd, current_path)

Entries(D, F, rp) ==
    {q \in D \cup DOMAIN F : Len(q) = Len(rp) + 1 /\ SubSeq(q, 1, Len(rp)) = rp}

\* is_dir_empty that never looks at the entries
is_dir_empty_always(D, F, rp) == TRUE

\* is_dir_empty(dir_path): a directory that cannot be read counts as empty
is_dir_empty(D, F, rp) ==
    IF is_dir(D, rp) THEN Entries(D, F, rp) = {} ELSE TRUE

\* assert!(repo_dir(&repo, name).is_ok())
assert_repo_dir(D, F, wd, repo, name) ==
    LET made == repo_dir(D, F, wd, repo, RelPath(name))
    IN  IF made.res.kind = "err"
        THEN Out(made.dirs, made.files, Panic("assert!(repo_dir(..).is_ok())"))
        ELSE made

\* File::create(repo_file(&repo, name))?.write(..)?, and write_to_file
create_meta_file(D, F, wd, repo, name) ==
    LET located == repo_file(D, F, wd, repo, RelPath(name))
    IN  IF located.res.kind = "panic"
        THEN located
        ELSE LET rp == Resolve(wd, located.res.val)
             IN  IF can_create_file(located.dirs, rp)
                 THEN Out(located.dirs, WithFile(located.files, rp, MetaFile), Ok(Nil))
                 ELSE Out(located.dirs, located.files, Err(IoError))

\* what repo_create lays out, in the order of its statements
Layout ==
    << [dir |-> TRUE, name |-> <<Tok("branches")>>],
       [dir |-> TRUE, name |-> <<Objects>>],
       [dir |-> TRUE, name |-> <<Tok("refs"), Tok("tags")>>],
       [dir |-> TRUE, name |-> <<Tok("refs"), Tok("heads")>>],
       [dir |-> FALSE, name |-> <<Tok("description")>>],
       [dir |-> FALSE, name |-> <<Tok("config")>>] >>

\* the statements of repo_create after its checks, run in order on the
\* filesystem state o until one fails
RECURSIVE lay_out(_, _, _, _)
lay_out(o, wd, repo, todo) ==
    IF todo = <<>> \/ o.res.kind # "ok"
    THEN o
    ELSE CHOOSE last \in
             { lay_out(next, wd, repo, Tail(todo)) :
                 next \in { IF Head(todo).dir
                            THEN assert_repo_dir(o.dirs, o.files, wd, repo, Head(todo).name)
                            ELSE create_meta_file(o.dirs, o.files, wd, repo, Head(todo).name) } }
             : TRUE

\* the checks repo_create makes before it writes anything
repo_create_checks(D, F, wd, repo) ==
    LET worktree == Resolve(wd, repo.worktree)
        gitdir == Resolve(wd, repo.gitdir)
    IN  IF exists(D, F, worktree)
        THEN IF ~is_dir(D, worktree)
             THEN Out(D, F, Err(WorktreeNotADirectory))
             ELSE IF exists(D, F, gitdir) /\ ~is_dir_empty(D, F, gitdir)
                  THEN Out(D, F, Err(GitdirNotEmpty))
                  ELSE Out(D, F, Ok(Nil))
        ELSE IF can_create_dir_all(F, worktree)
             THEN Out(create_dir_all(D, worktree), F, Ok(Nil))
             ELSE Out(D, F, Ok(Nil))

\* repo_create(path)
repo_create(D, F, wd, path) ==
    LET repo == GitRepository_new(D, wd, path, TRUE).val
    IN  CHOOSE result \in
            { IF done.res.kind = "ok" THEN Out(done.dirs, done.files, Ok(repo)) ELSE done :
                done \in { lay_out(checked, wd, repo, Layout) :
                             checked \in {repo_create_checks(D, F, wd, repo)} } }
            : TRUE

----------------------------------------------------------------------------
(* Inputs *)

PayloadBytes == {NUL, SP, OrdinaryByte[1]}

RECURSIVE SeqsUpTo(_, _)
SeqsUpTo(S, n) ==
    IF n = 0 THEN {<<>>}
    ELSE LET shorter == SeqsUpTo(S, n - 1)
         IN  shorter \cup {Append(q, x) : q \in shorter, x \in S}

Payloads == SeqsUpTo(PayloadBytes, MaxLen)

\* the objects a caller can hold: GitObject::new of a valid token and a payload
StoredObjects == {GitObject_new(p, t).val : p \in Payloads, t \in TypeTokens}

\* the identity write_object computes for an object
identity_of(obj) == hex_encode(Sha1(file_content_of(to_string(obj), obj.data)))

NoCall == [op |-> "none", repo |-> Nil, arg |-> Nil, res |-> Ok(Nil), aux |-> Nil]
Call(op, repo, arg, res, aux) ==
    [op |-> op, repo |-> repo, arg |-> arg, res |-> res, aux |-> aux]

----------------------------------------------------------------------------
(* The store, one call at a time *)

Home == <<Tok("w")>>
RepoName == <<Tok("r")>>
EmptyFiles == <<>>

\* repo_create("r") run in /w on a filesystem that holds only /w
Created == repo_create(Prefixes(Home), EmptyFiles, Home, RelPath(RepoName))
\* repo_find("r") run in /w afterwards
Found == repo_find(Created.dirs, Created.files, Home, RelPath(RepoName))

Init ==
    /\ dirs = Created.dirs
    /\ files = Created.files
    /\ cwd = Home
    /\ repos = {Created.res.val, Found.val}
    /\ ret = NoCall
    /\ nops = 0
    /\ procs = <<>>

\* identities a caller reads: one a write just returned, one of an object
\* never written, and one too short to slice
AbsentSha == <<"0", "0", "0", "0">>
ShortSha == <<"0">>
ShaInputs ==
    (IF ret.op = "write_object" /\ ret.res.kind = "ok" THEN {ret.res.val} ELSE {})
    \cup {AbsentSha, ShortSha}

\* relative paths handed to repo_file
RelInputs ==
    { RelPath(<<Tok("HEAD")>>),
      RelPath(<<Objects, <<"a", "b">>, <<"c", "d">>>>),
      RelPath(<<Tok("description"), Tok("x")>>),
      RelPath(<<Tok("description"), Tok("x"), Tok("y")>>) }

WriteObject ==
    \E repo \in repos, obj \in StoredObjects :
        \E o \in {write_object(dirs, files, cwd, repo, obj)} :
            /\ nops < MaxOps
            /\ dirs' = o.dirs
            /\ files' = o.files
            /\ ret' = Call("write_object", repo, obj, o.res, Nil)
            /\ nops' = nops + 1
            /\ UNCHANGED <<cwd, repos, procs>>

ReadObject ==
    \E repo \in repos, sha \in ShaInputs :
        \E o \in read_object(dirs, files, cwd, repo, sha) :
            /\ nops < MaxOps
            /\ dirs' = o.dirs
            /\ files' = o.files
            /\ ret' = Call("read_object", repo, sha, o.res, Nil)
            /\ nops' = nops + 1
            /\ UNCHANGED <<cwd, repos, procs>>

\* read_object(repo, write_object(repo, GitObject::new(p, t)))
RoundTrip ==
    \E repo \in repos, t \in TypeTokens, p \in Payloads :
        \E w \in {write_object(dirs, files, cwd, repo, GitObject_new(p, t).val)} :
            /\ nops < MaxOps
            /\ \E o \in (IF w.res.kind = "ok"
                         THEN read_object(w.dirs, w.files, cwd, repo, w.res.val)
                         ELSE {w}) :
                   /\ dirs' = o.dirs
                   /\ files' = o.files
                   /\ ret' = Call("round_trip", repo, [token |-> t, payload |-> p],
                                  o.res, w.res)
            /\ nops' = nops + 1
            /\ UNCHANGED <<cwd, repos, procs>>

RepoFile ==
    \E repo \in repos, rel \in RelInputs :
        \E o \in {repo_file(dirs, files, cwd, repo, rel)} :
            /\ nops < MaxOps
            /\ dirs' = o.dirs
            /\ files' = o.files
            /\ ret' = Call("repo_file", repo, rel, o.res, Nil)
            /\ nops' = nops + 1
            /\ UNCHANGED <<cwd, repos, procs>>

\* GitObject::new(payload, token) followed by to_string and serialize
Decode ==
    \E t \in TypeTokens \cup {widget, <<>>}, p \in Payloads :
        \E made \in {GitObject_new(p, t)} :
            /\ nops < MaxOps
            /\ ret' = Call("decode", Nil, [token |-> t, payload |-> p], made,
                           IF made.kind = "ok"
                           THEN [type_token |-> to_string(made.val),
                                 encoded |-> serialize(made.val)]
                           ELSE Nil)
            /\ nops' = nops + 1
            /\ UNCHANGED <<dirs, files, cwd, repos, procs>>

Next == WriteObject \/ ReadObject \/ RoundTrip \/ RepoFile \/ Decode

Spec == Init /\ [][Next]_vars

----------------------------------------------------------------------------
(* Claims about the store and the codec, checked under Spec *)

\* the file a call on (repo, sha) looks up, as read_object derives it
ReadLocation(repo, sha) == Resolve(cwd, repo_path(repo, read_object_path(sha)))
\* the file write_object targets for an object
WriteTarget(repo, obj) ==
    Resolve(cwd, repo_path(repo, write_object_path(identity_of(obj))))

\* C1. Round trip: read(repo, write(repo, decode(t, p))) returns an object
\* whose type token is t and whose payload is exactly p, for every valid
\* token t, payload p and repository handle.
C1_RoundTrip ==
    ret.op = "round_trip" =>
        /\ ret.res.kind = "ok"
        /\ to_string(ret.res.val) = ret.arg.token
        /\ ret.res.val.data = ret.arg.payload

\* C2. Idempotent write, immutability: an object file's bytes never change
\* once it exists, and a write whose target file already exists changes no
\* file and no directory and still returns the object's identity.
C2_IdempotentWrite ==
    [][ /\ \A f \in DOMAIN files : f \in DOMAIN files' /\ files'[f] = files[f]
        /\ ( /\ ret'.op = "write_object"
             /\ nops' = nops + 1
             /\ is_file(files, WriteTarget(ret'.repo, ret'.arg)) )
           => /\ dirs' = dirs
              /\ files' = files
              /\ ret'.res = Ok(identity_of(ret'.arg)) ]_vars

\* C3. Object location: after write returns identity h, the object file is
\* at objects/<first 2 hex chars of h>/<the remaining chars of h>, the path
\* read(repo, h) looks up; write and read agree on the location.
C3_ObjectLocation ==
    [][ ( /\ ret'.op = "write_object"
          /\ nops' = nops + 1
          /\ ret'.res.kind = "ok"
          /\ ~is_file(files, WriteTarget(ret'.repo, ret'.arg))
          /\ ~is_file(files, ReadLocation(ret'.repo, ret'.res.val)) )
        => /\ is_file(files', ReadLocation(ret'.repo, ret'.res.val))
           /\ write_object_path(ret'.res.val) = read_object_path(ret'.res.val) ]_vars

\* C5. read never aborts the process: for every identity it returns an
\* object or an error value (ObjectNotFound when no file is at the
\* identity's path).
C5_ReadNeverAborts ==
    ret.op = "read_object" => ret.res.kind \in {"ok", "err"}

\* C9. resolve_file guarantees the parent directory of the path it returns,
\* for absolute and relative repository roots alike, and fails with
\* NotADirectory when a component that should be a directory is a file.
C9_ParentExists ==
    ret.op = "repo_file" =>
        /\ ret.res.kind \in {"ok", "err"}
        /\ ret.res.kind = "ok" => is_dir(dirs, Resolve(cwd, parent(ret.res.val)))

\* C10. Type dispatch: decode(token, payload) succeeds exactly for the four
\* tokens, returning the variant whose type token is the input token and
\* whose encode result is the payload unchanged; any other token fails with
\* UnknownObjectType.
C10_TypeDispatch ==
    ret.op = "decode" =>
        IF ret.arg.token \in TypeTokens
        THEN /\ ret.res.kind = "ok"
             /\ ret.aux.type_token = ret.arg.token
             /\ ret.aux.encoded = Ok(ret.arg.payload)
        ELSE ret.res = Err(UnknownType)

----------------------------------------------------------------------------
(* Reading object files that were not written by write_object *)

\* the identity under which the file is stored
ForeignSha == <<"a", "b", "c", "d">>

\* decompressed buffers: a type field, a separator or none, a length field,
\* a terminator or none, payload bytes
TypeFields == {blob, tree, widget, <<NUL, 98>>, <<>>}
LengthFields ==
    {to_decimal(n) : n \in 0..(MaxLen + 1)}
    \cup {<<PLUS, ZERO + 1>>, <<ZERO, ZERO + 1>>, OrdinaryByte, InvalidByte, <<>>}
Buffers ==
    {t \o s1 \o n \o s2 \o p :
        t \in TypeFields, s1 \in {<<SP>>, <<>>}, n \in LengthFields,
        s2 \in {<<NUL>>, <<>>}, p \in Payloads}

ForeignLocation == Resolve(Home, repo_path(Found.val, read_object_path(ForeignSha)))

InitRead ==
    /\ \E buffer \in Buffers :
           files = WithFile(Created.files, ForeignLocation, Zlib(buffer))
    /\ dirs = create_dir_all(Created.dirs,
                             SubSeq(ForeignLocation, 1, Len(ForeignLocation) - 1))
    /\ cwd = Home
    /\ repos = {Created.res.val, Found.val}
    /\ ret = NoCall
    /\ nops = 0
    /\ procs = <<>>

ReadForeign ==
    \E repo \in repos :
        \E o \in read_object(dirs, files, cwd, repo, ForeignSha) :
            /\ nops < MaxOps
            /\ dirs' = o.dirs
            /\ files' = o.files
            /\ ret' = Call("read_object", repo, ForeignSha, o.res, Nil)
            /\ nops' = nops + 1
            /\ UNCHANGED <<cwd, repos, procs>>

NextRead == ReadForeign

SpecRead == InitRead /\ [][NextRead]_vars

\* the header as the format defines it: the first space, the first null
\* byte after that space, and decimal digits between the two
FirstIndex(s, b, after) ==
    IF \E i \in (after + 1)..Len(s) : s[i] = b
    THEN CHOOSE i \in (after + 1)..Len(s) :
             s[i] = b /\ \A j \in (after + 1)..(i - 1) : s[j] # b
    ELSE 0
HeaderSpace(s) == FirstIndex(s, SP, 0)
HeaderNull(s) == FirstIndex(s, NUL, HeaderSpace(s))
HeaderLength(s) == SubSeq(s, HeaderSpace(s) + 1, HeaderNull(s) - 1)
WellFormedHeader(s) ==
    /\ HeaderSpace(s) > 0
    /\ HeaderNull(s) > 0
    /\ HeaderLength(s) # <<>>
    /\ \A i \in 1..Len(HeaderLength(s)) : IsDigit(HeaderLength(s)[i])
DeclaredLength(s) == digits_value(HeaderLength(s), 0)
\* (total decompressed bytes) - (offset of the null byte) - 1
ActualLength(s) == Len(s) - (HeaderNull(s) - 1) - 1

\* C4. Length integrity: on a buffer with a well-formed header, read fails
\* with LengthMismatch whenever the declared length differs from the number
\* of bytes after the header's null byte, succeeds only when they are equal,
\* and then returns exactly those bytes.
C4_LengthIntegrity ==
    LET buffer == files[ForeignLocation].data
    IN  (ret.op = "read_object" /\ WellFormedHeader(buffer)) =>
            /\ DeclaredLength(buffer) # ActualLength(buffer)
                   => ret.res = Err(BadLength)
            /\ ret.res.kind = "ok"
                   => /\ DeclaredLength(buffer) = ActualLength(buffer)
                      /\ ret.res.val.data = SubSeq(buffer, HeaderNull(buffer) + 1, Len(buffer))

----------------------------------------------------------------------------
(* The locator on a directory chain /d/d/... *)

DirName == Tok("d")
PlainFile == Tok("f")
NewName == Tok("n")
HeadFile == Tok("HEAD")

RECURSIVE Chain(_)
Chain(k) == IF k = 0 THEN <<>> ELSE Chain(k - 1) \o <<DirName>>

Levels == 0..MaxDepth

\* what a directory of the chain holds under the name .git
GitStates == {"none", "empty", "populated", "file"}

LocatorDirs(g) ==
    {Chain(k) : k \in Levels}
    \cup {Chain(k) \o <<DotGit>> : k \in {j \in Levels : g[j] \in {"empty", "populated"}}}

LocatorFilePaths(g) ==
    {Chain(k) \o <<DotGit>> : k \in {j \in Levels : g[j] = "file"}}
    \cup {Chain(k) \o <<DotGit, HeadFile>> : k \in {j \in Levels : g[j] = "populated"}}
    \cup {Chain(MaxDepth) \o <<PlainFile>>}

InitLocator ==
    /\ \E g \in [Levels -> GitStates] :
           /\ dirs = LocatorDirs(g)
           /\ files = [q \in LocatorFilePaths(g) |-> MetaFile]
    /\ cwd = Chain(1)
    /\ repos = {}
    /\ ret = NoCall
    /\ nops = 0
    /\ procs = <<>>

\* paths handed to repo_find and repo_create: every directory of the chain,
\* a regular file, a path that does not exist, and relative paths
LocatorPaths ==
    {AbsPath(Chain(k)) : k \in Levels}
    \cup { AbsPath(Chain(MaxDepth) \o <<PlainFile>>),
           AbsPath(Chain(MaxDepth) \o <<NewName>>),
           RelPath(<<Dot>>),
           RelPath(<<DirName>>) }

RepoFind ==
    \E path \in LocatorPaths :
        /\ ret' = Call("repo_find", Nil, path, repo_find(dirs, files, cwd, path), Nil)
        /\ UNCHANGED <<dirs, files, cwd, repos, nops, procs>>

RepoCreate ==
    \E path \in LocatorPaths :
        \E o \in {repo_create(dirs, files, cwd, path)} :
            /\ dirs' = o.dirs
            /\ files' = o.files
            /\ ret' = Call("repo_create", Nil, path, o.res, Nil)
            /\ UNCHANGED <<cwd, repos, nops, procs>>

NextLocator == RepoFind \/ RepoCreate

SpecLocator == InitLocator /\ [][NextLocator]_vars

\* the directories, from the start path upwards, that hold a metadata
\* directory
Holders(start) == {q \in Prefixes(start) : is_dir(dirs, q \o <<DotGit>>)}
Nearest(start) == CHOOSE q \in Holders(start) : \A o \in Holders(start) : Len(o) <= Len(q)

C8_CreateRejects ==
    [][ ret'.op = "repo_create" =>
            LET worktree == Resolve(cwd, ret'.arg)
                gitdir == worktree \o <<DotGit>>
            IN  /\ is_file(files, worktree)
                       => /\ ret'.res = Err(WorktreeNotADirectory)
                          /\ dirs' = dirs /\ files' = files
                /\ (is_dir(dirs, gitdir) /\ Entries(dirs, files, gitdir) # {})
                       => /\ ret'.res = Err(GitdirNotEmpty)
                          /\ dirs' = dirs /\ files' = files ]_vars

\* a second create on a path where an earlier create succeeded is rejected
C8_Witness ==
    /\ ret.op = "repo_create"
    /\ ret.res = Err(GitdirNotEmpty)
    /\ is_file(files, Resolve(cwd, ret.arg) \o <<DotGit, Tok("config")>>)

----------------------------------------------------------------------------
(* Processes that read and write the same store concurrently.  A call is   *)
(* split where it touches the filesystem: write_object checks that the     *)
(* path exists, creates the file, then writes it; read_object asserts that *)
(* the path is a file, then opens and reads it.                            *)

RaceRepo == Found.val
RaceObjects == {GitObject_new(p, blob).val : p \in SeqsUpTo({OrdinaryByte[1]}, MaxLen)}

\* an object that another client stored at the location read_object looks up
StockObject == GitObject_new(<<>>, blob).val
StockLocation ==
    Resolve(Home, repo_path(RaceRepo, read_object_path(identity_of(StockObject))))

Idle ==
    [role |-> "idle", pc |-> "idle", obj |-> Nil, sha |-> Nil, path |-> Nil,
     obs |-> "none", res |-> Ok(Nil)]

\* what a process that looks at a path finds there
Observe(F, rp) ==
    IF rp \notin DOMAIN F THEN "absent"
    ELSE IF F[rp].fmt = "empty" THEN "partial"
    ELSE "complete"

InitRace ==
    /\ dirs = create_dir_all(Created.dirs,
                             SubSeq(StockLocation, 1, Len(StockLocation) - 1))
    /\ files = WithFile(Created.files, StockLocation,
                        Zlib(file_content_of(blob, StockObject.data)))
    /\ cwd = Home
    /\ repos = {RaceRepo}
    /\ ret = NoCall
    /\ nops = 0
    /\ procs = [p \in 1..NProcs |-> Idle]

\* write_object up to the path: serialize, header, digest, repo_file
WriteLocate(p) ==
    /\ procs[p].pc = "idle"
    /\ \E repo \in repos, obj \in RaceObjects :
           \E located \in {repo_file(dirs, files, cwd, repo,
                                     write_object_path(identity_of(obj)))} :
               /\ serialize(obj).kind = "ok"
               /\ located.res.kind = "ok"
               /\ dirs' = located.dirs
               /\ procs' = [procs EXCEPT ![p] =
                      [role |-> "writer", pc |-> "exists", obj |-> obj,
                       sha |-> identity_of(obj),
                       path |-> Resolve(cwd, located.res.val),
                       obs |-> "none", res |-> Ok(Nil)]]
    /\ UNCHANGED <<files, cwd, repos, ret, nops>>

\* if !path.exists()
WriteExists(p) ==
    /\ procs[p].pc = "exists"
    /\ procs' = [procs EXCEPT ![p] =
           IF exists(dirs, files, procs[p].path)
           THEN [@ EXCEPT !.pc = "done", !.obs = Observe(files, procs[p].path),
                          !.res = Ok(procs[p].sha)]
           ELSE [@ EXCEPT !.pc = "create", !.obs = "absent"]]
    /\ UNCHANGED <<dirs, files, cwd, repos, ret, nops>>

\* File::create(path).unwrap(): creates the file, or truncates the one
\* another process has created since the check
WriteCreate(p) ==
    /\ procs[p].pc = "create"
    /\ IF can_create_file(dirs, procs[p].path)
       THEN /\ files' = WithFile(files, procs[p].path, EmptyFile)
            /\ procs' = [procs EXCEPT ![p].pc = "write"]
       ELSE /\ files' = files
            /\ procs' = [procs EXCEPT ![p].pc = "done",
                                      ![p].res = Panic("unwrap: File::create")]
    /\ UNCHANGED <<dirs, cwd, repos, ret, nops>>

\* encoder.write_all(&file_content).unwrap() and the encoder's drop, which
\* finishes the stream
WriteAll(p) ==
    /\ procs[p].pc = "write"
    /\ files' = WithFile(files, procs[p].path,
                         Zlib(file_content_of(to_string(procs[p].obj),
                                              serialize(procs[p].obj).val)))
    /\ procs' = [procs EXCEPT ![p].pc = "done", ![p].res = Ok(procs[p].sha)]
    /\ UNCHANGED <<dirs, cwd, repos, ret, nops>>

\* read_object up to the path: repo_file
ReadLocate(p) ==
    /\ procs[p].pc = "idle"
    /\ \E repo \in repos, obj \in RaceObjects :
           \E located \in {repo_file(dirs, files, cwd, repo,
                                     read_object_path(identity_of(obj)))} :
               /\ located.res.kind = "ok"
               /\ dirs' = located.dirs
               /\ procs' = [procs EXCEPT ![p] =
                      [role |-> "reader", pc |-> "assert", obj |-> Nil,
                       sha |-> identity_of(obj),
                       path |-> Resolve(cwd, located.res.val),
                       obs |-> "none", res |-> Ok(Nil)]]
    /\ UNCHANGED <<files, cwd, repos, ret, nops>>

\* assert!(path.is_file())
ReadAssert(p) ==
    /\ procs[p].pc = "assert"
    /\ procs' = [procs EXCEPT ![p] =
           IF is_file(files, procs[p].path)
           THEN [@ EXCEPT !.pc = "open"]
           ELSE [@ EXCEPT !.pc = "done", !.obs = "absent",
                          !.res = Panic("assert!(path.is_file())")]]
    /\ UNCHANGED <<dirs, files, cwd, repos, ret, nops>>

\* File::open, read_to_end and the rest of read_object
ReadAll(p) ==
    /\ procs[p].pc = "open"
    /\ \E inflated \in Inflate(files[procs[p].path]) :
           procs' = [procs EXCEPT ![p] =
               [@ EXCEPT !.pc = "done", !.obs = Observe(files, procs[p].path),
                         !.res = IF inflated.kind = "ok"
                                 THEN parse_object(inflated.val)
                                 ELSE inflated]]
    /\ UNCHANGED <<dirs, files, cwd, repos, ret, nops>>

NextRace ==
    \E p \in 1..NProcs :
        \/ WriteLocate(p)
        \/ WriteExists(p)
        \/ WriteCreate(p)
        \/ WriteAll(p)
        \/ ReadLocate(p)
        \/ ReadAssert(p)
        \/ ReadAll(p)

SpecRace == InitRace /\ [][NextRace]_vars

\* the object files of the store: the files two levels below objects/
ObjectFiles ==
    {f \in DOMAIN files :
        \E repo \in repos :
            /\ Len(f) = Len(Resolve(cwd, repo.gitdir)) + 3
            /\ SubSeq(f, 1, Len(f) - 2) = Resolve(cwd, repo.gitdir) \o <<Objects>>}

\* C6. No partial object is observable: in every interleaving of processes
\* writing and reading, an object file is either absent or holds the complete
\* compressed encoding, and that is all a process looking at it ever finds.
C6_NoPartialObject ==
    /\ \A f \in ObjectFiles : files[f].fmt = "zlib"
    /\ \A p \in 1..NProcs : procs[p].obs # "partial"

=============================================================================
